---- MODULE Spec2Model ----
(***************************************************************************)
(* Model of the video task orchestration pipeline of                       *)
(* src/src/lib/video-generation.ts: generateVideos, processVideoTask,      *)
(* updateVideoTask and pickVideoApiKey, driven by a provider whose         *)
(* answers are drawn from small sets.                                      *)
(*                                                                         *)
(* Texts (keys, messages, response bodies) are sequences of tokens; the    *)
(* status labels are strings.                                              *)
(***************************************************************************)
EXTENDS Integers, Sequences, FiniteSets, TLC

(***************************************************************************)
(* Bounds of the model.                                                    *)
(***************************************************************************)
\* largest configured apiSettings.threadCount
MaxThreads == 2
\* in the batch scenario a provider job answers "not finished" at most this
\* many times before it answers with a final result
MaxPending == 2
\* the orchestrator runs (generateVideos calls) that may overlap, numbered in
\* the order of the calls
Runs == {1, 2}

(***************************************************************************)
(* Program constants.                                                      *)
(***************************************************************************)
\* const maxPollTimes = 120
maxPollTimes == 120
\* JSON.stringify(generateResponse).slice(0, 500)
SliceLen == 500
\* fetchJson: retries = 3
retries == 3
\* fetchJson: timeoutMs = 900_000
timeoutMs == 900000

\* status labels written by processVideoTask and read by generateVideos
StWaiting == "waiting"                \* the "waiting" label of new tasks
StFailed == "failed"                  \* status of the catch block
StSuccess == "success"                \* status of the final success patch
StGenerating == "generating"          \* status of the first patch
StSubmitted == "submitted, awaiting processing"
StDownloading == "finished, downloading"
\* `generating... (poll ${pollCount})`
PollLabel(k) == "generating... (poll " \o ToString(k) \o ")"

Min(a, b) == IF a < b THEN a ELSE b
Max(a, b) == IF a > b THEN a ELSE b

\* the elements of a sequence
Range(s) == {s[i] : i \in DOMAIN s}

(***************************************************************************)
(* Texts.                                                                  *)
(***************************************************************************)
Blank(c) == c = " "

\* String.prototype.trim: drops leading and trailing white space
RECURSIVE TrimLeft(_)
TrimLeft(s) == IF s # <<>> /\ Blank(Head(s)) THEN TrimLeft(Tail(s)) ELSE s
RECURSIVE TrimRight(_)
TrimRight(s) ==
    IF s # <<>> /\ Blank(s[Len(s)]) THEN TrimRight(SubSeq(s, 1, Len(s) - 1)) ELSE s
Trim(s) == TrimRight(TrimLeft(s))

\* String.prototype.toLowerCase on the letters the model uses
LowerChar(c) ==
    CASE c = "K" -> "k" [] c = "I" -> "i" [] c = "E" -> "e" [] c = "A" -> "a"
      [] OTHER -> c
ToLower(s) == [i \in DOMAIN s |-> LowerChar(s[i])]

\* String.prototype.slice(0, n)
Slice(s, n) == SubSeq(s, 1, Min(Len(s), n))

(***************************************************************************)
(* Credential resolution.                                                  *)
(***************************************************************************)
\* process.env.KIE_API_KEY when it is not set
Undefined == <<"undefined">>

ProviderAliases == {<<"k","i","e",".","a","i">>, <<"k","i","e">>, <<"k","e","i">>,
                    <<"k","i","e","a","i">>}

\* the first key-library entry whose platform is a provider alias (0: none)
FindCandidate(lib) ==
    LET hits == {i \in DOMAIN lib : ToLower(lib[i].platform) \in ProviderAliases}
    IN IF hits = {} THEN 0 ELSE CHOOSE i \in hits : \A j \in hits : i <= j

NoCredential == [thrown |-> TRUE, apiKey |-> <<>>, source |-> "none"]

\* a resolution that hands out an empty key where the code throws
pickVideoApiKeyNoThrow(c) ==
    IF c.envKey # Undefined /\ Trim(c.envKey) # <<>>
    THEN [thrown |-> FALSE, apiKey |-> Trim(c.envKey), source |-> "environment"]
    ELSE [thrown |-> FALSE, apiKey |-> Trim(c.settingsKey), source |-> "videoSettings"]

\* a resolution that looks at videoSettings.apiKey before the environment
pickVideoApiKeySettingsFirst(c) ==
    IF Trim(c.settingsKey) # <<>>
    THEN [thrown |-> FALSE, apiKey |-> Trim(c.settingsKey), source |-> "videoSettings"]
    ELSE IF c.envKey # Undefined /\ Trim(c.envKey) # <<>>
    THEN [thrown |-> FALSE, apiKey |-> Trim(c.envKey), source |-> "environment"]
    ELSE IF FindCandidate(c.keyLibrary) # 0
    THEN [thrown |-> FALSE, apiKey |-> c.keyLibrary[FindCandidate(c.keyLibrary)].apiKey,
          source |-> c.keyLibrary[FindCandidate(c.keyLibrary)].name]
    ELSE NoCredential

pickVideoApiKey(c) ==
    IF c.envKey # Undefined /\ Trim(c.envKey) # <<>>
    THEN [thrown |-> FALSE, apiKey |-> Trim(c.envKey), source |-> "environment"]
    ELSE IF Trim(c.settingsKey) # <<>>
    THEN [thrown |-> FALSE, apiKey |-> Trim(c.settingsKey), source |-> "videoSettings"]
    ELSE IF FindCandidate(c.keyLibrary) # 0
    THEN [thrown |-> FALSE, apiKey |-> c.keyLibrary[FindCandidate(c.keyLibrary)].apiKey,
          source |-> c.keyLibrary[FindCandidate(c.keyLibrary)].name]
    ELSE NoCredential

(***************************************************************************)
(* State.                                                                  *)
(***************************************************************************)
VARIABLES
    videoTasks,   \* data.videoTasks of the stored document, in list order
    cfg,          \* KIE_API_KEY, videoSettings.apiKey, keyLibrary, threadCount
    callsLeft,    \* generateVideos requests the operator may still send
    provider,     \* the provider's behaviour: provider, the "not finished"
                  \* answers a job may give, and faults, whether it may
                  \* answer with anything but a plain success or an HTTP error
    runState,     \* per run: idle, running, noop, ok, threw
    numbers,      \* per run: the numbers of the request (<<>>: none given)
    apiKey,       \* per run: the resolved credential
    pc,           \* per pipeline (run, task index): position in processVideoTask
    pollCount,    \* per pipeline: let pollCount
    generateResponse, \* per pipeline: const generateResponse
    pollData,     \* per pipeline: const pollData of the current iteration
    err,          \* per pipeline: the error caught by the catch block
    dl,           \* per pipeline: result of downloadVideo
    progressWritten, \* per pipeline: the progress of the last patch that
                  \* carried one (NoProgress: none yet)
    snap,         \* per pipeline: the document read by a running updateAppData
    picked,       \* the result of a pickVideoApiKey call taken on its own
    fj,           \* the state of a fetchJson call taken on its own
    board,        \* the task board's query: the statuses it fetched last and
                  \* whether its refetch interval is on
    upd,          \* an updateVideoTask call taken on its own
    gen,          \* a call of the image generation endpoint
    batch,        \* a batch image run of the prompt workspace
    styleStore,   \* the style document: styles and categories
    keyStore      \* the key document and config.selectedKeyId

vars == <<videoTasks, cfg, callsLeft, provider, runState, numbers, apiKey,
          pc, pollCount, generateResponse, pollData, err, dl, progressWritten, snap,
          picked, fj, board, upd, gen, batch, styleStore, keyStore>>

runVars == <<runState, numbers, apiKey>>
localVars == <<pollCount, generateResponse, pollData, err, dl, progressWritten>>
\* the state of the calls that are taken on their own
fnVars == <<picked, fj, board, upd, gen, batch, styleStore, keyStore>>

\* the statuses of the largest store of the model: three eligible tasks
WideStatuses == <<StWaiting, StFailed, StWaiting>>

TaskIdx == 1..Len(WideStatuses)
Pipelines == Runs \X TaskIdx

\* a value of a local that holds nothing
None == <<>>

\* the value of progressWritten before the first patch with a progress
NoProgress == -1

(***************************************************************************)
(* Task records and the store.                                             *)
(***************************************************************************)
OldError == <<"earlier failure">>

\* a record as an earlier run or the task form leaves it
TaskRecord(n, st) ==
    [number |-> ToString(n), status |-> st,
     progress |-> IF st = StSuccess THEN 100 ELSE IF st = StWaiting THEN 0 ELSE 5,
     errorMsg |-> IF st = StFailed THEN OldError ELSE <<>>,
     localPath |-> IF st = StSuccess THEN "old.mp4" ELSE "",
     remoteUrl |-> IF st = StSuccess THEN "old" ELSE "",
     actualFilename |-> IF st = StSuccess THEN "old.mp4" ELSE "",
     updatedAt |-> "created"]

\* Object.assign(task, patch): the fields of patch replace those of task
Assign(task, patch) ==
    [f \in DOMAIN task |-> IF f \in DOMAIN patch THEN patch[f] ELSE task[f]]

\* data.videoTasks.find((item) => item.number === number): index, 0 if none
FindTask(data, number) ==
    LET hits == {i \in DOMAIN data : data[i].number = number}
    IN IF hits = {} THEN 0 ELSE CHOOSE i \in hits : \A j \in hits : i <= j

\* new Date().toISOString() at the time of an update: the model keeps no
\* clock, every stamp of an update is the same value
Now == "stamped"

\* an updater that patches every record with the number
updateVideoTaskAll(data, number, patch) ==
    [i \in DOMAIN data |->
        IF data[i].number = number
        THEN Assign(Assign(data[i], patch), [updatedAt |-> Now])
        ELSE data[i]]

\* the updater of updateVideoTask applied to a document
updateVideoTask(data, number, patch) ==
    LET i == FindTask(data, number)
    IN IF i = 0 THEN data
       ELSE [data EXCEPT ![i] = Assign(Assign(data[i], patch), [updatedAt |-> Now])]

(***************************************************************************)
(* The provider.                                                           *)
(***************************************************************************)
\* answers of the generate endpoint that fetchJson returns
GenerateResponses ==
    { [taskId |-> "job", body |-> <<"taskId", "job">>],
      [taskId |-> "", body |-> <<"code", "422", "msg", "bad image">>],
      [taskId |-> "", body |-> <<"data", "taskId", "empty">>] }

\* errors fetchJson throws
FetchErrors == { <<"HTTP 401", "unauthorized">> }

ProviderMessage == <<"provider: generation failed">>

\* answers of the record-info endpoint that fetchJson returns
PollResponses ==
    { [code |-> 200, successFlag |-> 0, errorMessage |-> <<>>, resultUrls |-> <<>>],
      [code |-> 200, successFlag |-> 2, errorMessage |-> <<>>, resultUrls |-> <<>>],
      [code |-> 200, successFlag |-> 2, errorMessage |-> ProviderMessage, resultUrls |-> <<>>],
      [code |-> 200, successFlag |-> 0, errorMessage |-> ProviderMessage, resultUrls |-> <<>>],
      [code |-> 200, successFlag |-> 1, errorMessage |-> <<>>, resultUrls |-> <<"u1", "u2">>],
      [code |-> 200, successFlag |-> 1, errorMessage |-> <<>>, resultUrls |-> <<>>],
      [code |-> 501, successFlag |-> 0, errorMessage |-> <<>>, resultUrls |-> <<>>],
      [code |-> 501, successFlag |-> 2, errorMessage |-> ProviderMessage, resultUrls |-> <<>>] }

\* the answers of a provider without faults: not finished, or success
PlainPollResponses ==
    {d \in PollResponses : d.code = 200 /\ d.errorMessage = <<>> /\
                           d.successFlag \in {0, 1} /\ (d.successFlag = 1 => d.resultUrls # <<>>)}

\* HTTP statuses of a failed download
DownloadFailures == {404}

\* a loop that takes an error message for "not finished"
PollKindNoFailure(d) ==
    IF d.code # 200 THEN "non200"
    ELSE IF d.successFlag = 1 THEN "success"
    ELSE "pending"

\* what the poll loop does with an answer
PollKind(d) ==
    IF d.code # 200 THEN "non200"
    ELSE IF d.successFlag = 1 THEN "success"
    ELSE IF d.errorMessage # <<>> THEN "failure"
    ELSE "pending"

\* a message that leaves the response out
NoTaskIdErrorBare(resp) == <<"generate returned no taskId">>

NoTaskIdError(resp) == <<"generate returned no taskId">> \o Slice(resp.body, SliceLen)
NoUrlError == <<"record-info returned no video url">>
TimeoutError == <<"polling timed out">>

\* a message that leaves the HTTP status out
DownloadErrorNoStatus(s) == <<"download failed">>

\* `下载视频失败: ${response.status}`
DownloadError(s) == <<"download failed", ToString(s)>>

(***************************************************************************)
(* Initial states.                                                         *)
(***************************************************************************)
OtherEntry == [name |-> "yunwu", platform |-> <<"y","u","n","w","u">>, apiKey |-> <<"y","1">>]
KieEntry == [name |-> "kie", platform |-> <<"K","I","E",".","a","i">>, apiKey |-> <<"l","1">>]

\* no credential; a padded process-level key; a key-library entry only
KeyConfigs ==
    { [envKey |-> Undefined, settingsKey |-> <<" ">>, keyLibrary |-> <<OtherEntry>>],
      [envKey |-> <<" ", "e", "1", " ">>, settingsKey |-> <<>>, keyLibrary |-> <<>>],
      [envKey |-> <<" ">>, settingsKey |-> <<>>, keyLibrary |-> <<OtherEntry, KieEntry>>] }

Config(k, t) ==
    [envKey |-> k.envKey, settingsKey |-> k.settingsKey, keyLibrary |-> k.keyLibrary,
     threadCount |-> t]

\* the numbers a request names: none, task 1 among others, no stored task
NumberArgs == { <<>>, <<"9", "1">>, <<"9">> }

InitLocals ==
    /\ runState = [r \in Runs |-> "idle"]
    /\ numbers = [r \in Runs |-> <<>>]
    /\ apiKey = [r \in Runs |-> None]
    /\ pc = [p \in Pipelines |-> "none"]
    /\ pollCount = [p \in Pipelines |-> 0]
    /\ generateResponse = [p \in Pipelines |-> None]
    /\ pollData = [p \in Pipelines |-> None]
    /\ err = [p \in Pipelines |-> None]
    /\ dl = [p \in Pipelines |-> None]
    /\ progressWritten = [p \in Pipelines |-> NoProgress]
    /\ snap = [p \in Pipelines |-> None]
    /\ picked = None
    /\ fj = None
    /\ board = None
    /\ upd = None /\ gen = None /\ batch = None /\ styleStore = None /\ keyStore = None

\* no run of generateVideos: every run idle, no pipeline
NoRun ==
    /\ callsLeft = 0
    /\ provider = [pendingCap |-> 0, faults |-> FALSE]
    /\ runState = [r \in Runs |-> "idle"]
    /\ numbers = [r \in Runs |-> <<>>]
    /\ apiKey = [r \in Runs |-> None]
    /\ pc = [p \in Pipelines |-> "none"]
    /\ pollCount = [p \in Pipelines |-> 0]
    /\ generateResponse = [p \in Pipelines |-> None]
    /\ pollData = [p \in Pipelines |-> None]
    /\ err = [p \in Pipelines |-> None]
    /\ dl = [p \in Pipelines |-> None]
    /\ progressWritten = [p \in Pipelines |-> NoProgress]
    /\ snap = [p \in Pipelines |-> None]

\* the variables of generateVideos and its pipelines
pipeVars == <<videoTasks, cfg, callsLeft, provider, runVars, pc, localVars, snap>>

\* the stored list with the given statuses
Store(sts) == [i \in DOMAIN sts |-> TaskRecord(i, sts[i])]

\* the configurations in which a credential resolves from the environment
EnvConfigs == {k \in KeyConfigs : k.envKey # Undefined /\ Trim(k.envKey) # <<>>}

\* the empty store, and stores of two records: both eligible, one eligible,
\* none eligible
BatchStores ==
    { Store(<<>>), Store(<<StWaiting, StFailed>>), Store(<<StSuccess, StWaiting>>),
      Store(<<StFailed, StGenerating>>), Store(<<StSuccess, StGenerating>>) }

\* one call on a store of at most two records. With a single slot the provider's jobs
\* end within MaxPending polls in any way; with more slots they end at once,
\* in success or with an HTTP error
InitBatch ==
    /\ videoTasks \in BatchStores
    /\ \E k \in KeyConfigs, t \in 0..MaxThreads :
         /\ cfg = Config(k, t)
         /\ provider = IF t <= 1 THEN [pendingCap |-> MaxPending, faults |-> TRUE]
                                 ELSE [pendingCap |-> 0, faults |-> FALSE]
    /\ callsLeft = 1
    /\ InitLocals

\* one call on three eligible tasks with two slots
InitWide ==
    /\ videoTasks = Store(WideStatuses)
    /\ cfg \in {Config(k, 2) : k \in EnvConfigs}
    /\ callsLeft = 1
    /\ provider = [pendingCap |-> 0, faults |-> FALSE]
    /\ InitLocals

\* two calls that may overlap, each with a single slot, on two eligible tasks
InitOverlap ==
    /\ videoTasks = Store(<<StWaiting, StFailed>>)
    /\ cfg \in {Config(k, 1) : k \in EnvConfigs}
    /\ callsLeft = 2
    /\ provider = [pendingCap |-> 0, faults |-> FALSE]
    /\ InitLocals

\* one waiting task, one call, a provider job that may never end
InitLong ==
    /\ videoTasks = Store(<<StWaiting>>)
    /\ cfg \in {Config(k, 1) : k \in EnvConfigs}
    /\ callsLeft = 1
    /\ provider = [pendingCap |-> maxPollTimes, faults |-> TRUE]
    /\ InitLocals

Init == InitBatch \/ InitWide \/ InitOverlap \/ InitLong

(***************************************************************************)
(* generateVideos.                                                         *)
(***************************************************************************)
\* a filter that also keeps succeeded tasks
EligibleWithSuccess == {StWaiting, StFailed, StSuccess}

EligibleStatuses == {StWaiting, StFailed}

\* a selection that ignores the requested numbers
TargetsOfAll(data, nums) == {i \in DOMAIN data : data[i].status \in EligibleStatuses}

\* targets: the indices of the tasks the two filters keep, in list order
Targets(data, nums) ==
    {i \in DOMAIN data :
        /\ Len(nums) > 0 => data[i].number \in Range(nums)
        /\ data[i].status \in EligibleStatuses}

\* a limiter with one slot too many
LimitOneMore(c) == Max(1, c.threadCount) + 1

\* pLimit(Math.max(1, apiSettings.threadCount ?? 1))
Limit(c) == Max(1, c.threadCount)

\* a limiter that takes the last k elements first
LastK(S, k) == {i \in S : Cardinality({j \in S : j > i}) < k}

\* the first k elements of a set of indices
FirstK(S, k) == {i \in S : Cardinality({j \in S : j < i}) < k}

\* the pipelines of run r that were started and have not finished
Active(r) == {i \in TaskIdx : pc[<<r, i>>] \notin {"none", "queued", "done_ok", "done_failed"}}
Queued(r) == {i \in TaskIdx : pc[<<r, i>>] = "queued"}
Selected(r) == {i \in TaskIdx : pc[<<r, i>>] # "none"}

\* the run the next call becomes
NextRun == CHOOSE r \in Runs : runState[r] = "idle" /\ \A q \in Runs : runState[q] = "idle" => r <= q

\* p-limit runs the first Limit queued functions at once, in order
StartFirst(r, targets, lim) ==
    [p \in Pipelines |->
        IF p[1] = r /\ p[2] \in targets
        THEN IF p[2] \in FirstK(targets, lim) THEN "w_start" ELSE "queued"
        ELSE pc[p]]

generateVideos(nums) ==
    /\ callsLeft > 0
    /\ \E r \in Runs : runState[r] = "idle"
    /\ LET r == NextRun
           data == videoTasks
           targets == Targets(data, nums)
           key == pickVideoApiKey(cfg)
       IN /\ callsLeft' = callsLeft - 1
          /\ numbers' = [numbers EXCEPT ![r] = nums]
          /\ IF targets = {}
             THEN /\ runState' = [runState EXCEPT ![r] = "noop"]
                  /\ UNCHANGED <<apiKey, pc>>
             ELSE IF key.thrown
             THEN /\ runState' = [runState EXCEPT ![r] = "threw"]
                  /\ UNCHANGED <<apiKey, pc>>
             ELSE /\ runState' = [runState EXCEPT ![r] = "running"]
                  /\ apiKey' = [apiKey EXCEPT ![r] = key.apiKey]
                  /\ pc' = StartFirst(r, targets, Limit(cfg))
    /\ UNCHANGED <<videoTasks, cfg, provider, localVars, snap, fnVars>>

(***************************************************************************)
(* processVideoTask.                                                       *)
(***************************************************************************)
\* task.number of the task object a pipeline was given
NumberOf(p) == videoTasks[p[2]].number

\* downloadVideo's result for a result URL
Downloaded(url, number) ==
    [localPath |-> "generated_videos/" \o number \o "_" \o url \o ".mp4",
     actualFilename |-> number \o "_" \o url \o ".mp4"]

\* positions at which the pipeline awaits updateVideoTask
WriteLocs == {"w_start", "w_submitted", "w_non200", "w_pending", "w_dl", "w_success", "w_fail"}

\* a success patch that records the last result URL instead of the first
PatchLastUrl(p) ==
    CASE pc[p] = "w_start" -> [status |-> StGenerating, errorMsg |-> <<>>, progress |-> 5]
      [] pc[p] = "w_submitted" -> [status |-> StSubmitted, progress |-> 15]
      [] pc[p] = "w_non200" -> [status |-> PollLabel(pollCount[p])]
      [] pc[p] = "w_pending" ->
            [status |-> PollLabel(pollCount[p]), progress |-> Min(90, 15 + pollCount[p] * 2)]
      [] pc[p] = "w_dl" -> [status |-> StDownloading, progress |-> 95]
      [] pc[p] = "w_success" ->
            [status |-> StSuccess, progress |-> 100, localPath |-> dl[p].localPath,
             remoteUrl |-> pollData[p].resultUrls[Len(pollData[p].resultUrls)],
             actualFilename |-> dl[p].actualFilename, errorMsg |-> <<>>]
      [] pc[p] = "w_fail" -> [status |-> StFailed, errorMsg |-> err[p]]

\* a pending patch whose progress is not capped
PatchPendingUncapped(p) ==
    CASE pc[p] = "w_start" -> [status |-> StGenerating, errorMsg |-> <<>>, progress |-> 5]
      [] pc[p] = "w_submitted" -> [status |-> StSubmitted, progress |-> 15]
      [] pc[p] = "w_non200" -> [status |-> PollLabel(pollCount[p])]
      [] pc[p] = "w_pending" ->
            [status |-> PollLabel(pollCount[p]), progress |-> 15 + pollCount[p] * 2]
      [] pc[p] = "w_dl" -> [status |-> StDownloading, progress |-> 95]
      [] pc[p] = "w_success" ->
            [status |-> StSuccess, progress |-> 100, localPath |-> dl[p].localPath,
             remoteUrl |-> pollData[p].resultUrls[1],
             actualFilename |-> dl[p].actualFilename, errorMsg |-> <<>>]
      [] pc[p] = "w_fail" -> [status |-> StFailed, errorMsg |-> err[p]]

\* the patch of the updateVideoTask call at the pipeline's position
Patch(p) ==
    CASE pc[p] = "w_start" -> [status |-> StGenerating, errorMsg |-> <<>>, progress |-> 5]
      [] pc[p] = "w_submitted" -> [status |-> StSubmitted, progress |-> 15]
      [] pc[p] = "w_non200" -> [status |-> PollLabel(pollCount[p])]
      [] pc[p] = "w_pending" ->
            [status |-> PollLabel(pollCount[p]), progress |-> Min(90, 15 + pollCount[p] * 2)]
      [] pc[p] = "w_dl" -> [status |-> StDownloading, progress |-> 95]
      [] pc[p] = "w_success" ->
            [status |-> StSuccess, progress |-> 100, localPath |-> dl[p].localPath,
             remoteUrl |-> pollData[p].resultUrls[1],
             actualFilename |-> dl[p].actualFilename, errorMsg |-> <<>>]
      [] pc[p] = "w_fail" -> [status |-> StFailed, errorMsg |-> err[p]]

\* updateAppData, first half: read the stored document
UpdRead(p) ==
    /\ pc[p] \in WriteLocs
    /\ snap[p] = None
    /\ snap' = [snap EXCEPT ![p] = videoTasks]
    /\ UNCHANGED <<videoTasks, cfg, callsLeft, provider, runVars, pc, localVars, fnVars>>

\* a limiter whose slot is lost when the pipeline ended in failure
SettleStall(p, outcome) ==
    LET r == p[1]
        q == Queued(r)
        nxt == CHOOSE i \in q : \A j \in q : i <= j
        pc1 == [pc EXCEPT ![p] = outcome]
    IN /\ pc' = IF q = {} \/ outcome = "done_failed" THEN pc1
                ELSE [pc1 EXCEPT ![<<r, nxt>>] = "w_start"]
       /\ runState' = IF q = {} /\ Active(r) = {p[2]}
                      THEN [runState EXCEPT ![r] = "ok"]
                      ELSE runState

\* the settled pipeline frees its p-limit slot: the next queued task of the
\* run starts, and Promise.all resolves once none is left
Settle(p, outcome) ==
    LET r == p[1]
        q == Queued(r)
        nxt == CHOOSE i \in q : \A j \in q : i <= j
        pc1 == [pc EXCEPT ![p] = outcome]
    IN /\ pc' = IF q = {} THEN pc1 ELSE [pc1 EXCEPT ![<<r, nxt>>] = "w_start"]
       /\ runState' = IF q = {} /\ Active(r) = {p[2]}
                      THEN [runState EXCEPT ![r] = "ok"]
                      ELSE runState

\* a loop condition that allows one iteration too many
ContinueOneMore(p) ==
    IF pollCount[p] <= maxPollTimes
    THEN /\ pc' = [pc EXCEPT ![p] = "poll"]
         /\ UNCHANGED err
    ELSE /\ pc' = [pc EXCEPT ![p] = "w_fail"]
         /\ err' = [err EXCEPT ![p] = TimeoutError]

\* the poll loop's condition after an iteration that continues
Continue(p) ==
    IF pollCount[p] < maxPollTimes
    THEN /\ pc' = [pc EXCEPT ![p] = "poll"]
         /\ UNCHANGED err
    ELSE /\ pc' = [pc EXCEPT ![p] = "w_fail"]
         /\ err' = [err EXCEPT ![p] = TimeoutError]

\* updateAppData, second half: apply the updater to the document that was
\* read and write it back; then the code after the await
UpdWrite(p) ==
    /\ pc[p] \in WriteLocs
    /\ snap[p] # None
    /\ videoTasks' = updateVideoTask(snap[p], NumberOf(p), Patch(p))
    /\ snap' = [snap EXCEPT ![p] = None]
    /\ progressWritten' =
          [progressWritten EXCEPT ![p] =
              IF pc[p] = "w_fail" THEN NoProgress
              ELSE IF "progress" \in DOMAIN Patch(p) THEN Patch(p).progress
              ELSE @]
    /\ CASE pc[p] = "w_start" ->
              /\ pc' = [pc EXCEPT ![p] = "submit"]
              /\ UNCHANGED <<runVars, pollCount, generateResponse, pollData, err, dl>>
         [] pc[p] = "w_submitted" ->
              /\ pc' = [pc EXCEPT ![p] = "poll"]
              /\ UNCHANGED <<runVars, pollCount, generateResponse, pollData, err, dl>>
         [] pc[p] \in {"w_non200", "w_pending"} ->
              /\ Continue(p)
              /\ pollData' = [pollData EXCEPT ![p] = None]
              /\ UNCHANGED <<runVars, pollCount, generateResponse, dl>>
         [] pc[p] = "w_dl" ->
              /\ pc' = [pc EXCEPT ![p] = "download"]
              /\ UNCHANGED <<runVars, pollCount, generateResponse, pollData, err, dl>>
         [] pc[p] = "w_success" ->
              /\ Settle(p, "done_ok")
              /\ pollData' = [pollData EXCEPT ![p] = None]
              /\ dl' = [dl EXCEPT ![p] = None]
              /\ UNCHANGED <<numbers, apiKey, pollCount, generateResponse, err>>
         [] pc[p] = "w_fail" ->
              /\ Settle(p, "done_failed")
              /\ pollData' = [pollData EXCEPT ![p] = None]
              /\ err' = [err EXCEPT ![p] = None]
              /\ UNCHANGED <<numbers, apiKey, pollCount, generateResponse, dl>>
    /\ UNCHANGED <<cfg, callsLeft, provider, fnVars>>

\* the catch block is entered with error e
Catch(p, e) ==
    /\ pc' = [pc EXCEPT ![p] = "w_fail"]
    /\ err' = [err EXCEPT ![p] = e]

\* Submit, Poll and Download touch nothing shared before they reach their
\* updateVideoTask call, so the step that consumes the provider's answer is
\* also the step in which that call reads the document
ReadNow(p) == snap' = [snap EXCEPT ![p] = videoTasks]

\* fetchJson(GENERATE_URL, ...) and the taskId check
Submit(p) ==
    /\ pc[p] = "submit"
    /\ \/ \E resp \in GenerateResponses :
            /\ provider.faults \/ resp.taskId # ""
            /\ generateResponse' = [generateResponse EXCEPT ![p] = resp]
            /\ IF resp.taskId = ""
               THEN Catch(p, NoTaskIdError(resp))
               ELSE /\ pc' = [pc EXCEPT ![p] = "w_submitted"]
                    /\ UNCHANGED err
       \/ \E e \in FetchErrors :
            /\ Catch(p, e)
            /\ UNCHANGED generateResponse
    /\ ReadNow(p)
    /\ UNCHANGED <<videoTasks, cfg, callsLeft, provider, runVars, pollCount, pollData, dl,
                   progressWritten, fnVars>>

\* one iteration of the poll loop up to its updateVideoTask call or throw
Poll(p) ==
    /\ pc[p] = "poll"
    /\ pollCount' = [pollCount EXCEPT ![p] = pollCount[p] + 1]
    /\ \/ \E d \in PollResponses :
            /\ PollKind(d) \in {"non200", "pending"} => pollCount[p] < provider.pendingCap
            /\ provider.faults \/ d \in PlainPollResponses
            /\ pollData' = [pollData EXCEPT ![p] = d]
            /\ CASE PollKind(d) = "non200" ->
                      pc' = [pc EXCEPT ![p] = "w_non200"] /\ UNCHANGED err
                 [] PollKind(d) = "success" ->
                      pc' = [pc EXCEPT ![p] = "w_dl"] /\ UNCHANGED err
                 [] PollKind(d) = "failure" -> Catch(p, d.errorMessage)
                 [] PollKind(d) = "pending" ->
                      pc' = [pc EXCEPT ![p] = "w_pending"] /\ UNCHANGED err
       \/ \E e \in FetchErrors :
            /\ Catch(p, e)
            /\ UNCHANGED pollData
    /\ ReadNow(p)
    /\ UNCHANGED <<videoTasks, cfg, callsLeft, provider, runVars, generateResponse, dl,
                   progressWritten, fnVars>>

\* the resultUrls check and downloadVideo(resultUrls[0], ...)
Download(p) ==
    /\ pc[p] = "download"
    /\ IF pollData[p].resultUrls = <<>>
       THEN Catch(p, NoUrlError) /\ UNCHANGED dl
       ELSE \/ /\ dl' = [dl EXCEPT ![p] = Downloaded(pollData[p].resultUrls[1], NumberOf(p))]
               /\ pc' = [pc EXCEPT ![p] = "w_success"]
               /\ UNCHANGED err
            \/ \E s \in DownloadFailures :
                 provider.faults /\ Catch(p, DownloadError(s)) /\ UNCHANGED dl
    /\ ReadNow(p)
    /\ UNCHANGED <<videoTasks, cfg, callsLeft, provider, runVars, pollCount, generateResponse,
                   pollData, progressWritten, fnVars>>

Next ==
    \/ \E nums \in NumberArgs : generateVideos(nums)
    \/ \E p \in Pipelines : UpdRead(p)
    \/ \E p \in Pipelines : UpdWrite(p)
    \/ \E p \in Pipelines : Submit(p)
    \/ \E p \in Pipelines : Poll(p)
    \/ \E p \in Pipelines : Download(p)

Spec == Init /\ [][Next]_vars


(***************************************************************************)
(* pickVideoApiKey taken on its own: one call on each configuration.       *)
(***************************************************************************)
\* values of process.env.KIE_API_KEY
EnvKeys == { Undefined, <<>>, <<" ">>, <<" ", "e", "1", " ">> }

\* values of data.videoSettings.apiKey
SettingsKeys == { <<>>, <<" ", " ">>, <<"s", "1", " ">>, <<" ", "s", " ", "2">> }

KeiEntry == [name |-> "kei", platform |-> <<"K","e","i">>, apiKey |-> <<" ","m","1">>]
KieaiEntry == [name |-> "kieai", platform |-> <<"k","i","e","A","I">>, apiKey |-> <<>>]
NoPlatformEntry == [name |-> "bare", platform |-> <<>>, apiKey |-> <<"n","1">>]
SpacedEntry == [name |-> "spaced", platform |-> <<"k","i","e"," ">>, apiKey |-> <<"p","1">>]

\* values of data.keyLibrary, in the order Object.values lists them
KeyLibraries ==
    { <<>>, <<OtherEntry>>, <<OtherEntry, KieEntry>>, <<KeiEntry, KieEntry>>,
      <<NoPlatformEntry, KieaiEntry, KieEntry>>, <<SpacedEntry, OtherEntry>> }

InitKey ==
    /\ videoTasks = Store(<<>>)
    /\ \E e \in EnvKeys, k \in SettingsKeys, lib \in KeyLibraries :
          cfg = [envKey |-> e, settingsKey |-> k, keyLibrary |-> lib, threadCount |-> 1]
    /\ callsLeft = 0
    /\ provider = [pendingCap |-> 0, faults |-> FALSE]
    /\ InitLocals

\* a call of pickVideoApiKey(data)
PickKey ==
    /\ picked = None
    /\ picked' = pickVideoApiKey(cfg)
    /\ UNCHANGED <<videoTasks, cfg, callsLeft, provider, runVars, pc, localVars, snap, fj, board,
                   upd, gen, batch, styleStore, keyStore>>

NextKey == PickKey

SpecKey == InitKey /\ [][NextKey]_vars


(***************************************************************************)
(* fetchJson taken on its own: one call, the outcome of each axios request *)
(* drawn from AxiosOutcomes.                                               *)
(***************************************************************************)
\* what one axios request can end in. With validateStatus: status < 500 a
\* response below 500 resolves and one from 500 on rejects with an axios
\* error that carries the response; an axios error without response has
\* status 0; a "thrown" outcome is an error that is not an axios error
AxiosOutcomes ==
    { [kind |-> "resolved", status |-> 200, code |-> "", data |-> <<"taskId", "job">>],
      [kind |-> "resolved", status |-> 404, code |-> "", data |-> <<"not found">>],
      [kind |-> "resolved", status |-> 401, code |-> "", data |-> <<"unauthorized">>],
      [kind |-> "axios", status |-> 500, code |-> "ERR_BAD_RESPONSE", data |-> <<"internal">>],
      [kind |-> "axios", status |-> 503, code |-> "ERR_BAD_RESPONSE", data |-> <<"busy">>],
      [kind |-> "axios", status |-> 0, code |-> "ECONNABORTED", data |-> <<"timeout exceeded">>],
      [kind |-> "axios", status |-> 0, code |-> "ECONNRESET", data |-> <<"socket hang up">>],
      [kind |-> "axios", status |-> 0, code |-> "ENOTFOUND", data |-> <<"getaddrinfo">>],
      [kind |-> "axios", status |-> 0, code |-> "", data |-> <<"no code">>],
      [kind |-> "thrown", status |-> 0, code |-> "", data |-> <<"bad config">>] }

\* `HTTP ${status}: ${data}`
HttpError(status, data) == <<"HTTP", ToString(status)>> \o data
\* `请求超时 (${timeoutMs}ms)`
RequestTimeoutError == <<"request timed out", ToString(timeoutMs)>>
\* `连接被服务器重置，已重试${retries}次。...`
ConnectionResetError == <<"connection reset by server, retried", ToString(retries)>>
\* `网络请求失败 (${error.code || 'unknown'}): ${error.message}`
NetworkError(code, message) ==
    <<"network request failed", IF code = "" THEN "unknown" ELSE code>> \o message

\* a timeout test that never matches
IsTimeoutNever(o) == FALSE

\* error.code === 'ECONNABORTED'
IsTimeout(o) == o.code = "ECONNABORTED"

\* a reset backoff as short as the other backoffs
ResetDelayShort(attempt) == attempt * 1000

\* setTimeout(resolve, attempt * 2000)
ResetDelay(attempt) == attempt * 2000

\* a server-error backoff that does not grow
RetryDelayFlat(attempt) == 1000

\* setTimeout(resolve, attempt * 1000)
RetryDelay(attempt) == attempt * 1000

FetchThrow(e) == [fj EXCEPT !.pc = "threw", !.error = e]
FetchWait(ms) == [fj EXCEPT !.pc = "wait", !.waits = Append(@, ms)]

\* the catch block of fetchJson entered with an axios error o
CatchAxios(o) ==
    IF IsTimeout(o) THEN FetchThrow(RequestTimeoutError)
    ELSE IF o.code = "ECONNRESET"
    THEN IF fj.attempt < retries THEN FetchWait(ResetDelay(fj.attempt))
         ELSE FetchThrow(ConnectionResetError)
    ELSE IF o.status >= 500 /\ fj.attempt < retries THEN FetchWait(RetryDelay(fj.attempt))
    ELSE IF o.status # 0 THEN FetchThrow(HttpError(o.status, o.data))
    ELSE FetchThrow(NetworkError(o.code, o.data))

\* the catch block of fetchJson entered with an error e that is not an
\* axios error
CatchOther(e) ==
    IF fj.attempt < retries THEN FetchWait(RetryDelay(fj.attempt)) ELSE FetchThrow(e)

\* lastError = error: the error the catch block is entered with (the old
\* lastError when the request succeeded)
Caught(o) ==
    IF o.kind = "resolved"
    THEN IF o.status >= 400 THEN HttpError(o.status, o.data) ELSE fj.lastError
    ELSE o.data

\* the outcome o of the request handled by the body of the loop
Handle(o) ==
    IF o.kind = "resolved"
    THEN IF o.status >= 400 THEN CatchOther(HttpError(o.status, o.data))
         ELSE [fj EXCEPT !.pc = "returned", !.result = o.data]
    ELSE IF o.kind = "axios" THEN CatchAxios(o)
    ELSE CatchOther(o.data)

InitFetch ==
    /\ videoTasks = Store(<<>>)
    /\ cfg \in {Config(k, 1) : k \in EnvConfigs}
    /\ callsLeft = 0
    /\ provider = [pendingCap |-> 0, faults |-> TRUE]
    /\ runState = [r \in Runs |-> "idle"]
    /\ numbers = [r \in Runs |-> <<>>]
    /\ apiKey = [r \in Runs |-> None]
    /\ pc = [p \in Pipelines |-> "none"]
    /\ pollCount = [p \in Pipelines |-> 0]
    /\ generateResponse = [p \in Pipelines |-> None]
    /\ pollData = [p \in Pipelines |-> None]
    /\ err = [p \in Pipelines |-> None]
    /\ dl = [p \in Pipelines |-> None]
    /\ progressWritten = [p \in Pipelines |-> NoProgress]
    /\ snap = [p \in Pipelines |-> None]
    /\ picked = None
    /\ board = None
    /\ upd = None /\ gen = None /\ batch = None /\ styleStore = None /\ keyStore = None
    /\ fj = [pc |-> "request", attempt |-> 1, requests |-> 0, waits |-> <<>>,
             outcomes |-> <<>>, lastError |-> None, result |-> None, error |-> None]

\* one iteration of the loop: the axios request and what follows it up to
\* the return, the throw or the backoff wait
FetchAttempt ==
    /\ fj.pc = "request"
    /\ \E o \in AxiosOutcomes :
          fj' = [Handle(o) EXCEPT !.requests = @ + 1, !.outcomes = Append(@, o),
                                  !.lastError = Caught(o)]
    /\ UNCHANGED <<videoTasks, cfg, callsLeft, provider, runVars, pc, localVars, snap, picked, board,
                   upd, gen, batch, styleStore, keyStore>>

\* the backoff timer fires: continue, attempt += 1, the loop's condition
FetchWake ==
    /\ fj.pc = "wait"
    /\ fj' = IF fj.attempt + 1 <= retries
             THEN [fj EXCEPT !.pc = "request", !.attempt = @ + 1]
             ELSE [fj EXCEPT !.pc = "threw", !.error = fj.lastError]
    /\ UNCHANGED <<videoTasks, cfg, callsLeft, provider, runVars, pc, localVars, snap, picked, board,
                   upd, gen, batch, styleStore, keyStore>>

NextFetch == FetchAttempt \/ FetchWake

SpecFetch == InitFetch /\ [][NextFetch]_vars


(***************************************************************************)
(* The task board beside one run on one task.                              *)
(***************************************************************************)
\* the statuses for which refetchInterval answers 5000
RunningLabels == {StGenerating, StSubmitted, StDownloading}

\* refetchInterval(query): 5000 (TRUE) or false
RefetchInterval(data) == \E i \in DOMAIN data : data[i] \in RunningLabels

InitBoard ==
    /\ videoTasks = Store(<<StWaiting>>)
    /\ cfg \in {Config(k, 1) : k \in EnvConfigs}
    /\ callsLeft = 1
    /\ provider = [pendingCap |-> MaxPending, faults |-> TRUE]
    /\ runState = [r \in Runs |-> "idle"]
    /\ numbers = [r \in Runs |-> <<>>]
    /\ apiKey = [r \in Runs |-> None]
    /\ pc = [p \in Pipelines |-> "none"]
    /\ pollCount = [p \in Pipelines |-> 0]
    /\ generateResponse = [p \in Pipelines |-> None]
    /\ pollData = [p \in Pipelines |-> None]
    /\ err = [p \in Pipelines |-> None]
    /\ dl = [p \in Pipelines |-> None]
    /\ progressWritten = [p \in Pipelines |-> NoProgress]
    /\ snap = [p \in Pipelines |-> None]
    /\ picked = None
    /\ fj = None
    /\ upd = None /\ gen = None /\ batch = None /\ styleStore = None /\ keyStore = None
    /\ board = [data |-> <<>>, polling |-> FALSE]

\* queryFn: api.getVideoTasks answers, and refetchInterval is evaluated on
\* the answer
BoardFetched ==
    LET data == [i \in DOMAIN videoTasks |-> videoTasks[i].status]
    IN board' = [data |-> data, polling |-> RefetchInterval(data)]

\* the refetch interval fires
BoardTick ==
    /\ board.polling
    /\ BoardFetched
    /\ UNCHANGED <<videoTasks, cfg, callsLeft, provider, runVars, pc, localVars, snap,
                   picked, fj, upd, gen, batch, styleStore, keyStore>>

\* a fetch not caused by the interval: the mount, a window focus, or
\* invalidateQueries after a mutation
BoardRefetch ==
    /\ BoardFetched
    /\ UNCHANGED <<videoTasks, cfg, callsLeft, provider, runVars, pc, localVars, snap,
                   picked, fj, upd, gen, batch, styleStore, keyStore>>

NextBoard == Next \/ BoardTick \/ BoardRefetch

SpecBoard == InitBoard /\ [][NextBoard]_vars

(***************************************************************************)
(* Properties.                                                             *)
(***************************************************************************)
\* the pipelines that have reached the generate request or gone beyond it
Submitted == {p \in Pipelines : pc[p] \notin {"none", "queued", "w_start"}}

\* C1: at every instant of a run, the number of its pipelines that have
\* started and not finished is at most max(1, threadCount), however many
\* tasks are eligible.
C1_ConcurrencyCap ==
    \A r \in Runs : Cardinality(Active(r)) <= Max(1, cfg.threadCount)

\* two slots are taken while a third eligible task waits in the queue
C1_Witness ==
    \E r \in Runs : /\ cfg.threadCount = 2
                    /\ Cardinality(Active(r)) = 2
                    /\ Queued(r) # {}

\* C2: no task has its pipeline in flight in two orchestrator runs at once.
\* The code does not keep it: a second call selects every task whose stored
\* status is still waiting or failed, among them the tasks the first run has
\* queued or has started without having written their first status.
C2_OneRunPerTask ==
    \A i \in TaskIdx : Cardinality({r \in Runs : i \in Active(r)}) <= 1

\* C3: a call creates a pipeline, and so issues a generate request, only for
\* tasks whose status in the document it read is waiting or failed; a
\* pipeline never appears outside the call's own step.
C3_OnlyEligibleSubmitted ==
    [][\A p \in Pipelines :
          pc[p] = "none" /\ pc'[p] # "none" =>
             /\ videoTasks[p[2]].status \in {StWaiting, StFailed}
             /\ runState[p[1]] = "idle" /\ runState'[p[1]] = "running"]_vars

\* a run has submitted task 2 while the succeeded task 1 has no pipeline
C3_Witness ==
    \E r \in Runs : /\ Len(videoTasks) = 2
                    /\ videoTasks[1].status = StSuccess
                    /\ numbers[r] = <<>>
                    /\ pc[<<r, 1>>] = "none"
                    /\ <<r, 2>> \in Submitted

\* C4: when generateVideos has returned {success: true}, every record it
\* selected has status success or failed. The code does not keep it: a
\* status write of one pipeline puts back the document it read before
\* another pipeline's final write, and a second run may have restarted a
\* task the first run finished.
C4_TerminalAtReturn ==
    \A r \in Runs :
        runState[r] = "ok" =>
            \A i \in Selected(r) : videoTasks[i].status \in {StSuccess, StFailed}

\* no process-level key, a blank videoSettings.apiKey and no key-library
\* entry whose platform is a provider alias
NoCredentialConfigured(c) ==
    /\ c.envKey = Undefined \/ \A k \in DOMAIN c.envKey : c.envKey[k] = " "
    /\ \A k \in DOMAIN c.settingsKey : c.settingsKey[k] = " "
    /\ \A k \in DOMAIN c.keyLibrary :
          ToLower(c.keyLibrary[k].platform) \notin ProviderAliases

\* the records of data a request with numbers nums is about and may run
EligibleFor(data, nums) ==
    {i \in DOMAIN data :
        /\ nums = <<>> \/ \E k \in DOMAIN nums : nums[k] = data[i].number
        /\ data[i].status = StWaiting \/ data[i].status = StFailed}

\* the step of pipeline p
Step(p) == UpdRead(p) \/ UpdWrite(p) \/ Submit(p) \/ Poll(p) \/ Download(p)

Finished(p) == pc[p] \in {"done_ok", "done_failed"}

\* C5: generateVideos throws only when no credential resolves; a run that is
\* under way always has a pipeline in flight, every pipeline in flight can
\* take its next step whatever happened to the others, and a run that has
\* returned has run every selected task to its end.
C5_FailuresStayLocal ==
    \A r \in Runs :
        /\ runState[r] = "threw" => NoCredentialConfigured(cfg)
        /\ runState[r] = "running" => Active(r) # {}
        /\ \A i \in Active(r) : ENABLED Step(<<r, i>>)
        /\ runState[r] = "ok" => \A i \in Selected(r) : Finished(<<r, i>>)

\* a run has returned after one of its tasks failed and a later one succeeded
C5_Witness ==
    \E r \in Runs : /\ runState[r] = "ok"
                    /\ \E i, j \in TaskIdx : /\ i < j
                                            /\ pc[<<r, i>>] = "done_failed"
                                            /\ pc[<<r, j>>] = "done_ok"

\* C6: a call that finds an eligible task and no credential throws in its own
\* step: no record changes, no pipeline is created then or later, so no
\* request goes to the provider.
C6_NoCredentialAborts ==
    [][\A r \in Runs :
          /\ ( /\ runState[r] = "idle" /\ runState'[r] # "idle"
               /\ NoCredentialConfigured(cfg)
               /\ EligibleFor(videoTasks, numbers'[r]) # {} )
             => /\ runState'[r] = "threw"
                /\ videoTasks' = videoTasks
                /\ pc' = pc /\ snap' = snap /\ pollCount' = pollCount
          /\ runState[r] = "threw" => runState'[r] = "threw" /\ Selected(r)' = {}]_vars

\* a call has thrown although a task was eligible
C6_Witness ==
    \E r \in Runs : /\ runState[r] = "threw"
                    /\ EligibleFor(videoTasks, numbers[r]) # {}

\* C7: a call that finds no eligible task returns the no-op result in its own
\* step, whether or not a credential is configured: no record changes, no
\* pipeline is created then or later, so no request goes to the provider.
C7_NothingEligibleIsNoop ==
    [][\A r \in Runs :
          /\ ( /\ runState[r] = "idle" /\ runState'[r] # "idle"
               /\ EligibleFor(videoTasks, numbers'[r]) = {} )
             => /\ runState'[r] = "noop"
                /\ videoTasks' = videoTasks
                /\ pc' = pc /\ snap' = snap /\ pollCount' = pollCount
          /\ runState[r] = "noop" => runState'[r] = "noop" /\ Selected(r)' = {}]_vars

\* a call that named no stored task has returned the no-op result although no
\* credential is configured and a stored task was eligible
C7_Witness ==
    \E r \in Runs : /\ runState[r] = "noop"
                    /\ NoCredentialConfigured(cfg)
                    /\ numbers[r] = <<"9">>
                    /\ EligibleFor(videoTasks, <<>>) # {}

\* a is an initial part of b
IsPrefix(a, b) == Len(a) <= Len(b) /\ SubSeq(b, 1, Len(a)) = a

\* the generate answer pipeline p received carries no job identifier
NoJobId(p) == generateResponse[p] # None /\ generateResponse[p].taskId = ""

\* the poll answer pipeline p holds reports failure: an error message and a
\* successFlag other than success
ReportsFailure(d) == d # None /\ d.errorMessage # <<>> /\ d.successFlag # 1

\* C8: after a generate answer without a job identifier the pipeline makes
\* no poll request and writes nothing but the failure: its error message
\* carries a non-empty initial part of the raw answer, and the write sets the
\* record to failed with that message.
C8_NoJobIdFailsAtOnce ==
    [][\A p \in Pipelines :
          /\ NoJobId(p)' =>
                /\ pollCount'[p] = 0
                /\ pc'[p] \in {"w_fail", "done_failed"}
                /\ pc'[p] = "w_fail" =>
                      /\ Len(err'[p]) > 1
                      /\ IsPrefix(Tail(err'[p]), generateResponse'[p].body)
          /\ NoJobId(p) /\ pc[p] = "w_fail" /\ pc'[p] # "w_fail" =>
                /\ videoTasks'[p[2]].status = StFailed
                /\ videoTasks'[p[2]].errorMsg = err[p]]_vars

\* a task has ended failed on an answer without job identifier, unpolled
C8_Witness ==
    \E p \in Pipelines :
        /\ NoJobId(p) /\ pc[p] = "done_failed" /\ pollCount[p] = 0
        /\ videoTasks[p[2]].status = StFailed
        /\ generateResponse[p].body # <<>>
        /\ IsPrefix(generateResponse[p].body, Tail(videoTasks[p[2]].errorMsg))

\* C9: a pipeline makes at most 120 poll requests; the polling-timed-out
\* error arises after the 120th request was answered "not finished" (code
\* 200 or not) and at no other point; it is written to the record as failed
\* and generateVideos does not throw.
C9_PollBudget ==
    [][\A p \in Pipelines :
          /\ pollCount'[p] <= 120
          /\ pc[p] \in {"w_non200", "w_pending"} /\ pc'[p] # pc[p] =>
                IF pollCount[p] = 120
                THEN pc'[p] = "w_fail" /\ err'[p] = <<"polling timed out">>
                ELSE pc'[p] = "poll"
          /\ err'[p] = <<"polling timed out">> => pollCount'[p] = 120
          /\ pc[p] = "w_fail" /\ err[p] = <<"polling timed out">> /\ pc'[p] # "w_fail" =>
                /\ pc'[p] = "done_failed"
                /\ videoTasks'[p[2]].status = StFailed
                /\ videoTasks'[p[2]].errorMsg = <<"polling timed out">>
                /\ runState'[p[1]] # "threw"]_vars

\* a task has ended failed by the timeout after 120 polls and the call returned
C9_Witness ==
    \E p \in Pipelines :
        /\ pc[p] = "done_failed" /\ pollCount[p] = 120
        /\ videoTasks[p[2]].status = StFailed
        /\ videoTasks[p[2]].errorMsg = <<"polling timed out">>
        /\ runState[p[1]] = "ok"

\* C10, as claimed: whenever the poll answer a pipeline holds reports failure,
\* with code 200 or without, the pipeline is in its catch block with the
\* provider's message.
C10_EveryFailureFormFails ==
    \A p \in Pipelines :
        ReportsFailure(pollData[p]) =>
            pc[p] = "w_fail" /\ err[p] = pollData[p].errorMessage

\* C10, amended: a poll answer with code 200 that reports failure puts the
\* pipeline into its catch block with the provider's message; from there it
\* makes no further poll or download request and its only write sets the
\* record to failed with that message. An answer whose code is not 200 is
\* taken for "not finished" whatever message it carries.
C10_Code200FailureFails ==
    [][\A p \in Pipelines :
          /\ ReportsFailure(pollData'[p]) /\ pollData'[p].code = 200 =>
                pc'[p] = "w_fail" /\ err'[p] = pollData'[p].errorMessage
          /\ pollData'[p] # None /\ pollData'[p].code # 200 => pc'[p] = "w_non200"
          /\ pc[p] = "w_fail" =>
                /\ pollCount'[p] = pollCount[p]
                /\ pc'[p] \in {"w_fail", "done_failed"}
          /\ pc[p] = "w_fail" /\ ReportsFailure(pollData[p]) /\ pc'[p] # "w_fail" =>
                /\ videoTasks'[p[2]].status = StFailed
                /\ videoTasks'[p[2]].errorMsg = pollData[p].errorMessage
          /\ pc[p] = "done_failed" =>
                pc'[p] = "done_failed" /\ pollCount'[p] = pollCount[p]]_vars

\* a pipeline is in its catch block on a code-200 answer that carries an
\* error message with the "generating" flag
C10_Witness ==
    \E p \in Pipelines :
        /\ pc[p] = "w_fail"
        /\ ReportsFailure(pollData[p])
        /\ pollData[p].code = 200 /\ pollData[p].successFlag = 0
        /\ err[p] = pollData[p].errorMessage

\* pipeline p is in its catch block because the download of a result URL
\* failed: the poll answer it holds reported success with a result URL
DownloadFailed(p) ==
    /\ pc[p] = "w_fail" /\ pollData[p] # None
    /\ pollData[p].code = 200 /\ pollData[p].successFlag = 1
    /\ pollData[p].resultUrls # <<>>

\* C11: when the download of a reported result URL is answered with a
\* non-success HTTP status, the pipeline's error embeds that status, its only
\* remaining write sets the record to failed with that error and leaves
\* localPath empty, and the pipeline never reaches the success write.
C11_DownloadFailureFails ==
    [][\A p \in Pipelines :
          /\ DownloadFailed(p)' /\ pc[p] = "download" =>
                \E st \in DownloadFailures : ToString(st) \in Range(err'[p])
          /\ DownloadFailed(p) /\ pc'[p] # "w_fail" =>
                /\ pc'[p] = "done_failed"
                /\ videoTasks'[p[2]].status = StFailed
                /\ videoTasks'[p[2]].errorMsg = err[p]
                /\ videoTasks'[p[2]].localPath = ""
          /\ pc[p] = "done_failed" => pc'[p] = "done_failed"]_vars

\* a task has ended failed on a 404 of the download, after a poll reported
\* success, without a localPath
C11_Witness ==
    \E p \in Pipelines :
        /\ pc[p] = "done_failed" /\ pollCount[p] > 0
        /\ Len(videoTasks) >= p[2]
        /\ videoTasks[p[2]].status = StFailed
        /\ videoTasks[p[2]].errorMsg = <<"download failed", "404">>
        /\ videoTasks[p[2]].localPath = ""

\* C12: a pipeline whose poll reported success with a result URL and whose
\* download succeeded goes on to the success write, and that write leaves the
\* record with status success, progress 100, the downloaded file's localPath
\* and actualFilename, the first result URL as remoteUrl and no errorMsg.
C12_SuccessRecord ==
    [][\A p \in Pipelines :
          /\ pc[p] = "download" /\ dl'[p] # None => pc'[p] = "w_success"
          /\ pc[p] = "w_success" /\ pc'[p] # "w_success" =>
                /\ pc'[p] = "done_ok"
                /\ videoTasks'[p[2]].status = StSuccess
                /\ videoTasks'[p[2]].progress = 100
                /\ videoTasks'[p[2]].localPath = dl[p].localPath
                /\ videoTasks'[p[2]].localPath # ""
                /\ videoTasks'[p[2]].actualFilename = dl[p].actualFilename
                /\ videoTasks'[p[2]].actualFilename # ""
                /\ videoTasks'[p[2]].remoteUrl = Head(pollData[p].resultUrls)
                /\ videoTasks'[p[2]].errorMsg = <<>>]_vars

\* the second task of a store, failed before, has succeeded on its third
\* poll, after two polls that reported "still processing"
C12_Witness ==
    \E r \in Runs :
        /\ Len(videoTasks) = 2 /\ videoTasks[1].status # StSuccess
        /\ pc[<<r, 2>>] = "done_ok" /\ pollCount[<<r, 2>>] = 3
        /\ videoTasks[2].status = StSuccess /\ videoTasks[2].progress = 100
        /\ videoTasks[2].remoteUrl = "u1" /\ videoTasks[2].errorMsg = <<>>

\* C13: the progress values of the patches one pipeline writes never
\* decrease; a patch written before or while polling carries at most 90, and
\* only the download patch (95) and the success patch (100) carry more. A
\* patch that carries a progress puts that value into the record.
C13_ProgressMonotone ==
    [][\A p \in Pipelines :
          /\ progressWritten'[p] # NoProgress =>
                /\ progressWritten'[p] >= progressWritten[p]
                /\ pc'[p] \in {"submit", "w_submitted", "poll", "w_non200", "w_pending",
                               "w_dl"}
                      => progressWritten'[p] <= 90
                /\ progressWritten'[p] > 90 =>
                      \/ progressWritten'[p] = 95 /\ pc'[p] \in {"download", "w_success", "w_fail"}
                      \/ progressWritten'[p] = 100 /\ pc'[p] = "done_ok"
          /\ progressWritten'[p] # progressWritten[p] /\ progressWritten'[p] # NoProgress =>
                videoTasks'[p[2]].progress = progressWritten'[p]]_vars

\* a pipeline whose progress reached the ceiling of 90 while polling has
\* written the download patch after its 45th poll
C13_Witness ==
    \E p \in Pipelines :
        pc[p] = "download" /\ pollCount[p] = 45 /\ progressWritten[p] = 95

\* the status of the latest patch pipeline p has written, where its position
\* tells it
LatestStatus(p) ==
    CASE pc[p] = "submit" -> StGenerating
      [] pc[p] = "download" -> StDownloading
      [] pc[p] = "done_ok" -> StSuccess
      [] pc[p] = "done_failed" -> StFailed
      [] OTHER -> ""

\* C14: no update is lost between the pipelines of different tasks: while a
\* single run is at work, each task's record shows the status of the latest
\* patch its own pipeline has written. The code does not keep it: every
\* updateVideoTask writes back the whole document it read, so a write of
\* one pipeline puts back the record another pipeline has patched since.
C14_NoLostUpdate ==
    \A r \in Runs :
        (\A q \in Runs \ {r} : runState[q] = "idle") =>
            \A i \in TaskIdx :
                LatestStatus(<<r, i>>) # "" =>
                    videoTasks[i].status = LatestStatus(<<r, i>>)

\* a text with a character that is not white space
HasText(s) == \E i \in DOMAIN s : s[i] # " "

\* k is s without its leading and trailing white space
IsTrimmed(k, s) ==
    \E a, b \in DOMAIN s :
        /\ k = SubSeq(s, a, b)
        /\ s[a] # " " /\ s[b] # " "
        /\ \A i \in DOMAIN s : i < a \/ i > b => s[i] = " "

\* the platform of a key-library entry is a provider alias, whatever its case
AliasEntry(e) ==
    ToLower(e.platform) \in { <<"k","i","e",".","a","i">>, <<"k","i","e">>,
                              <<"k","e","i">>, <<"k","i","e","a","i">> }

\* C15: pickVideoApiKey returns the trimmed KIE_API_KEY when that has text;
\* otherwise the trimmed videoSettings.apiKey when that has text; otherwise
\* the key, as stored, of the first key-library entry whose platform is a
\* provider alias in any case; otherwise it throws.
C15_KeyPriority ==
    picked # None =>
        LET env == cfg.envKey
            set == cfg.settingsKey
            lib == cfg.keyLibrary
            envSet == env # Undefined /\ HasText(env)
        IN /\ envSet =>
                 /\ ~picked.thrown /\ picked.source = "environment"
                 /\ IsTrimmed(picked.apiKey, env)
           /\ ~envSet /\ HasText(set) =>
                 /\ ~picked.thrown /\ picked.source = "videoSettings"
                 /\ IsTrimmed(picked.apiKey, set)
           /\ ~envSet /\ ~HasText(set) /\ (\E i \in DOMAIN lib : AliasEntry(lib[i])) =>
                 \E i \in DOMAIN lib :
                     /\ AliasEntry(lib[i]) /\ \A j \in 1..(i - 1) : ~AliasEntry(lib[j])
                     /\ ~picked.thrown
                     /\ picked.apiKey = lib[i].apiKey /\ picked.source = lib[i].name
           /\ ~envSet /\ ~HasText(set) /\ (\A i \in DOMAIN lib : ~AliasEntry(lib[i])) =>
                 picked.thrown

\* with a blank KIE_API_KEY and a blank videoSettings.apiKey the key of the
\* second alias entry of the library was skipped for the first one
C15_Witness ==
    /\ picked # None /\ ~picked.thrown
    /\ cfg.envKey = <<" ">> /\ cfg.settingsKey = <<" ", " ">>
    /\ cfg.keyLibrary = <<KeiEntry, KieEntry>>
    /\ picked.source = "kei" /\ picked.apiKey = <<" ","m","1">>

\* outcomes of a request, as the claims name them
IsClientError(o) == o.kind = "resolved" /\ o.status >= 400 /\ o.status < 500
IsServerError(o) == o.kind = "axios" /\ o.status >= 500
IsReset(o) == o.kind = "axios" /\ o.status = 0 /\ o.code = "ECONNRESET"
TimedOut(o) == o.kind = "axios" /\ o.status = 0 /\ o.code = "ECONNABORTED"
IsOtherNetworkError(o) ==
    o.kind = "axios" /\ o.status = 0 /\ o.code \notin {"ECONNRESET", "ECONNABORTED"}
IsSuccess(o) == o.kind = "resolved" /\ o.status < 400

\* a fetchJson call has made at least one request
Requested == fj # None /\ fj.outcomes # <<>>

\* the waits of a call that has backed off n times by unit ms per attempt
Backoffs(n, unit) == [i \in 1..n |-> i * unit]

\* the call has ended and nothing more happens in it
FetchEnded == fj.pc \in {"returned", "threw"} /\ ~ENABLED NextFetch

\* C16: a 4xx answer to the first request ends the call at once: one
\* request, no wait, and the error thrown embeds the status and the body.
\* The code does not keep it: the error made for the 4xx answer is thrown
\* inside the try block, its own catch takes it for an unclassified error
\* and the request is repeated after a backoff.
C16_ClientErrorFailsAtOnce ==
    Requested /\ IsClientError(fj.outcomes[1]) =>
        /\ fj.requests = 1 /\ fj.waits = <<>>
        /\ fj.pc = "threw"
        /\ fj.error = <<"HTTP", ToString(fj.outcomes[1].status)>> \o fj.outcomes[1].data

\* C17: a call whose requests all failed with a network error that is
\* neither a reset nor a timeout is retried: it throws only after three
\* requests, with waits of 1 s and 2 s between them. The code does not keep
\* it: the first such error is thrown at once as the network failure.
C17_NetworkErrorRetried ==
    /\ Requested
    /\ \A i \in DOMAIN fj.outcomes : IsOtherNetworkError(fj.outcomes[i])
    /\ fj.pc = "threw"
    => /\ fj.requests = 3
       /\ fj.waits = <<1000, 2000>>

\* C18: while every request of a call fails with a connection reset, the
\* call waits 2 s after the first and 4 s after the second, makes three
\* requests and then throws the connection-reset error; a request that
\* succeeds after resets ends the call with its response.
C18_ResetRetried ==
    Requested =>
        LET n == Len(fj.outcomes)
        IN /\ (\A i \in 1..n : IsReset(fj.outcomes[i])) =>
                 /\ n <= 3 /\ fj.requests = n
                 /\ n < 3 => fj.pc \in {"wait", "request"} /\ fj.waits = Backoffs(n, 2000)
                 /\ n = 3 => /\ fj.waits = <<2000, 4000>>
                             /\ fj.pc = "threw" /\ FetchEnded
                             /\ fj.error = <<"connection reset by server, retried", "3">>
           /\ (\A i \in 1..(n - 1) : IsReset(fj.outcomes[i])) /\ IsSuccess(fj.outcomes[n]) =>
                 /\ fj.pc = "returned" /\ fj.result = fj.outcomes[n].data
                 /\ fj.requests = n /\ fj.waits = Backoffs(n - 1, 2000)
                 /\ FetchEnded

\* the call has thrown the reset error after three resets
C18_Witness ==
    /\ Requested /\ fj.pc = "threw" /\ fj.requests = 3
    /\ \A i \in 1..3 : IsReset(fj.outcomes[i])
    /\ fj.waits = <<2000, 4000>>

\* C19: no call makes more than three requests; while every request is
\* answered with a 5xx status the call waits 1 s after the first and 2 s
\* after the second, and after the third it throws the HTTP error with the
\* status and body of that answer.
C19_ServerErrorRetried ==
    Requested =>
        LET n == Len(fj.outcomes)
        IN /\ fj.requests = n /\ n <= 3
           /\ (\A i \in 1..n : IsServerError(fj.outcomes[i])) =>
                 /\ n < 3 => fj.pc \in {"wait", "request"} /\ fj.waits = Backoffs(n, 1000)
                 /\ n = 3 => /\ fj.waits = <<1000, 2000>>
                             /\ fj.pc = "threw" /\ FetchEnded
                             /\ fj.error = <<"HTTP", ToString(fj.outcomes[3].status)>>
                                              \o fj.outcomes[3].data

\* the call has thrown the HTTP error of the third 5xx answer, a 503 after
\* two 500s
C19_Witness ==
    /\ Requested /\ fj.pc = "threw" /\ fj.requests = 3
    /\ fj.outcomes[1].status = 500 /\ fj.outcomes[2].status = 500
    /\ fj.outcomes[3].status = 503
    /\ fj.error = <<"HTTP", "503", "busy">>

\* C20: a request that times out ends the call at once, on whatever attempt:
\* the timeout error is thrown, no wait follows and no request is made
\* after it.
C20_TimeoutFailsAtOnce ==
    Requested /\ TimedOut(fj.outcomes[Len(fj.outcomes)]) =>
        /\ fj.pc = "threw" /\ FetchEnded
        /\ fj.error = <<"request timed out", "900000">>
        /\ fj.requests = Len(fj.outcomes)
        /\ Len(fj.waits) = Len(fj.outcomes) - 1

\* the call has thrown the timeout error on its second request, after a
\* connection reset on the first
C20_Witness ==
    /\ Requested /\ Len(fj.outcomes) = 2
    /\ IsReset(fj.outcomes[1]) /\ TimedOut(fj.outcomes[2])
    /\ fj.pc = "threw" /\ fj.waits = <<2000>>

\* a status the orchestrator writes while a task is in flight
InFlightStatus(st) == st \notin {StWaiting, StFailed, StSuccess}

\* C21: a fetch of the task board that finds a task with an in-flight status
\* leaves the 5000 ms refetch interval on. The code does not keep it: the
\* attempt-numbered polling label is not among the statuses refetchInterval
\* tests, so a fetch that finds the only running task in its poll loop
\* switches the interval off.
C21_BoardKeepsPolling ==
    [][board' # board /\ (\E i \in DOMAIN videoTasks : InFlightStatus(videoTasks[i].status))
          => board'.polling]_vars

\* the pipeline's poll answer reported success and carried a result URL
SuccessWithUrl(d) == d # None /\ d.code = 200 /\ d.successFlag = 1 /\ d.resultUrls # <<>>

\* C23: the downloading patch (status downloading, progress 95) is written
\* only for a poll answer that reported success and carried at least one
\* result URL. The code does not keep it: the patch is written as soon as
\* successFlag is 1, before resultUrls is looked at.
C23_DownloadingNeedsUrl ==
    [][\A p \in Pipelines :
          pc[p] = "w_dl" /\ pc'[p] = "download" => SuccessWithUrl(pollData[p])]_vars

\* one of the three result fields of a record is set
ResultFieldSet(t) == t.localPath # "" \/ t.actualFilename # "" \/ t.remoteUrl # ""

\* C22: in every state a record has localPath, actualFilename or remoteUrl
\* set only if its status is success and its progress 100; in particular a
\* failed record has none of them. The code does not keep it: when two runs
\* overlap on a task, the later pipeline's patches change status and
\* progress of the record the earlier pipeline completed and leave its
\* result fields in place.
C22_ResultOnlyOnSuccess ==
    \A i \in DOMAIN videoTasks :
        ResultFieldSet(videoTasks[i]) =>
            videoTasks[i].status = StSuccess /\ videoTasks[i].progress = 100

MaxDocLen == 3

\* the updates one document receives
MaxUpdates == 2

UpdNumbers == {"1", "2"}

\* records with a number of UpdNumbers, as the task form leaves them
UpdRecords ==
    {[TaskRecord(1, st) EXCEPT !.number = n] : n \in UpdNumbers, st \in {StWaiting, StFailed}}

RECURSIVE SeqsUpTo(_, _)
SeqsUpTo(S, n) ==
    IF n = 0 THEN {<<>>}
    ELSE LET shorter == SeqsUpTo(S, n - 1)
         IN shorter \cup {Append(q, x) : q \in {t \in shorter : Len(t) = n - 1}, x \in S}

\* patches as processVideoTask passes them: with and without a progress
UpdPatches ==
    { [status |-> StGenerating, progress |-> 10, errorMsg |-> <<>>],
      [status |-> StFailed, errorMsg |-> <<"x">>] }

InitUpd ==
    /\ videoTasks \in SeqsUpTo(UpdRecords, MaxDocLen)
    /\ cfg \in {Config(k, 1) : k \in EnvConfigs}
    /\ NoRun
    /\ picked = None /\ fj = None /\ board = None
    /\ gen = None /\ batch = None /\ styleStore = None /\ keyStore = None
    /\ upd = [calls |-> 0]

\* one call of updateVideoTask, its read and its write not interleaved
UpdateCall ==
    /\ upd.calls < MaxUpdates
    /\ \E number \in UpdNumbers \cup {"3"}, patch \in UpdPatches :
          /\ videoTasks' = updateVideoTask(videoTasks, number, patch)
          /\ upd' = [calls |-> upd.calls + 1, number |-> number, patch |-> patch,
                     before |-> [videoTasks |-> videoTasks, cfg |-> cfg]]
    /\ UNCHANGED <<cfg, callsLeft, provider, runVars, pc, localVars, snap,
                   picked, fj, board, gen, batch, styleStore, keyStore>>

NextUpd == UpdateCall

SpecUpd == InitUpd /\ [][NextUpd]_vars

Updated == upd.calls > 0

\* C25: after a call the list has its length, the first record with the
\* number carries the patch and the stamp and keeps its other fields, every
\* other record (later ones with the same number too) and the settings are
\* as before; with no such record the whole document is as before.
C25_OnlyFirstMatch ==
    Updated =>
        LET old == upd.before.videoTasks
            hits == {i \in DOMAIN old : old[i].number = upd.number}
        IN /\ cfg = upd.before.cfg
           /\ DOMAIN videoTasks = DOMAIN old
           /\ hits = {} => videoTasks = old
           /\ \A i \in DOMAIN old :
                 IF i \in hits /\ \A j \in hits : i <= j
                 THEN \A f \in DOMAIN old[i] :
                         videoTasks[i][f] =
                            IF f = "updatedAt" THEN Now
                            ELSE IF f \in DOMAIN upd.patch THEN upd.patch[f]
                            ELSE old[i][f]
                 ELSE videoTasks[i] = old[i]

\* a number that two records carried has been updated
C25_Witness ==
    /\ Updated
    /\ Cardinality({i \in DOMAIN upd.before.videoTasks :
                       upd.before.videoTasks[i].number = upd.number}) >= 2
    /\ videoTasks # upd.before.videoTasks

(***************************************************************************)
(* POST /api/generate: the image generation endpoint and its retry loop.   *)
(***************************************************************************)
\* the largest retryCount of a request or of the configuration
MaxRetry == 2

\* requests the server handles at the same time
GenReqs == {1, 2}

PsWaiting == "prompt waiting"
PsSuccess == "prompt success"
PsFailed == "prompt failed"

\* the prompts of prompts.json
PromptIds == {"a", "b"}

\* what one upstream request comes to: fetch throws, the answer is not ok,
\* the content holds no image, it holds an image link, it holds inline data
Upstream == {"network", "http", "noimage", "url", "base64"}

\* the message of the Error an attempt throws
AttemptError(outcome) ==
    CASE outcome = "network" -> <<"fetch failed">>
      [] outcome = "http" -> <<"answer text">>
      [] outcome = "noimage" -> <<"no image in the answer">>
      [] OTHER -> <<"write failed">>

\* one attempt more than the loop of the endpoint allows
maxAttemptsOneMore(retryCount, config) ==
    (IF retryCount # None THEN retryCount[1] ELSE config.retryCount) + 2

\* (parsed.retryCount ?? config.retryCount) + 1
maxAttempts(retryCount, config) ==
    (IF retryCount # None THEN retryCount[1] ELSE config.retryCount) + 1

IdleRequest == [pc |-> "idle"]

\* no answer yet
NoResponse == [status |-> 0]

\* the null updatePromptRecord returns when the prompt is not stored
NullRecord == [status |-> "null"]

InitGen ==
    /\ videoTasks = Store(<<>>)
    /\ cfg \in {Config(k, 1) : k \in EnvConfigs}
    /\ NoRun
    /\ picked = None /\ fj = None /\ board = None /\ upd = None
    /\ batch = None /\ styleStore = None /\ keyStore = None
    /\ \E rc \in 0..MaxRetry :
          gen = [prompts |-> [id \in PromptIds |->
                                 [status |-> PsWaiting, imageUrl |-> "", errorMsg |-> <<>>]],
                 config |-> [retryCount |-> rc],
                 req |-> [r \in GenReqs |-> IdleRequest]]

genRest == <<videoTasks, cfg, callsLeft, provider, runVars, pc, localVars, snap,
             picked, fj, board, upd, batch, styleStore, keyStore>>

\* the request is parsed, the key is looked up and the loop is set up
GenPost(r) ==
    /\ gen.req[r].pc = "idle"
    /\ \E promptId \in PromptIds \cup {"z"}, retryCount \in {None} \cup {<<n>> : n \in 0..(MaxRetry - 1)},
          keyFound \in BOOLEAN :
          gen' = [gen EXCEPT !.req[r] =
                    IF ~keyFound
                    THEN [pc |-> "done", promptId |-> promptId, retryCount |-> retryCount,
                          maxAttempts |-> 0, fetches |-> 0, attempt |-> 0,
                          lastError |-> None, store |-> None,
                          response |-> [status |-> 400]]
                    ELSE [pc |-> "loop", promptId |-> promptId, retryCount |-> retryCount,
                          maxAttempts |-> maxAttempts(retryCount, gen.config),
                          fetches |-> 0, attempt |-> 0, lastError |-> None,
                          store |-> None, response |-> NoResponse]]
    /\ UNCHANGED genRest

\* one pass of the while loop: the upstream request, the parse of its
\* answer, the save of inline data, and the catch block
GenAttempt(r) ==
    LET q == gen.req[r]
    IN /\ q.pc = "loop"
       /\ \E outcome \in Upstream, saved \in BOOLEAN :
             LET yields == outcome = "url" \/ (outcome = "base64" /\ saved)
                 attempt == q.attempt + 1
             IN /\ (outcome # "base64" => saved)
                /\ gen' = [gen EXCEPT !.req[r] =
                             IF q.attempt >= q.maxAttempts
                             THEN [q EXCEPT !.pc = "mark_failed"]
                             ELSE IF yields
                             THEN [q EXCEPT !.pc = "mark_success", !.fetches = @ + 1]
                             ELSE [q EXCEPT !.fetches = @ + 1, !.attempt = attempt,
                                            !.lastError = AttemptError(outcome),
                                            !.pc = IF attempt >= q.maxAttempts
                                                   THEN "mark_failed" ELSE "loop"]]
       /\ UNCHANGED genRest

\* the updater the endpoint passes to updatePromptRecord
PromptUpdater(q, record) ==
    IF q.pc = "mark_success"
    THEN [record EXCEPT !.status = PsSuccess, !.imageUrl = "image", !.errorMsg = <<>>]
    ELSE [record EXCEPT !.status = PsFailed,
                        !.errorMsg = IF q.lastError # None THEN q.lastError
                                     ELSE <<"image generation failed">>]

GenResponse(q, record) ==
    IF q.pc \in {"mark_success", "write_success"}
    THEN [status |-> 200, success |-> TRUE, record |-> record]
    ELSE [status |-> 500, success |-> FALSE, record |-> record,
          message |-> IF q.lastError # None THEN q.lastError
                      ELSE <<"image generation failed">>]

\* updatePromptRecord up to its write: prompts.json is read and the record
\* looked up; with no such record nothing is written
GenMarkRead(r) ==
    LET q == gen.req[r]
    IN /\ q.pc \in {"mark_success", "mark_failed"}
       /\ gen' = [gen EXCEPT !.req[r] =
                    IF q.promptId \notin DOMAIN gen.prompts
                    THEN [q EXCEPT !.pc = "done", !.response = GenResponse(q, NullRecord)]
                    ELSE [q EXCEPT !.pc = IF q.pc = "mark_success" THEN "write_success"
                                          ELSE "write_failed",
                                   !.store = [gen.prompts EXCEPT ![q.promptId] =
                                                 PromptUpdater(q, gen.prompts[q.promptId])]]]
       /\ UNCHANGED genRest

\* the write of updatePromptRecord and the answer of the endpoint
GenMarkWrite(r) ==
    LET q == gen.req[r]
    IN /\ q.pc \in {"write_success", "write_failed"}
       /\ gen' = [gen EXCEPT !.prompts = q.store,
                             !.req[r] = [pc |-> "done", promptId |-> q.promptId,
                                         retryCount |-> q.retryCount,
                                         maxAttempts |-> q.maxAttempts,
                                         fetches |-> q.fetches, attempt |-> q.attempt,
                                         lastError |-> q.lastError, store |-> None,
                                         response |-> GenResponse(q, q.store[q.promptId])]]
       /\ UNCHANGED genRest

NextGen == \E r \in GenReqs : GenPost(r) \/ GenAttempt(r) \/ GenMarkRead(r) \/ GenMarkWrite(r)

SpecGen == InitGen /\ [][NextGen]_vars

\* the retry count in force for a request
RetryOf(q) == IF q.retryCount # None THEN q.retryCount[1] ELSE gen.config.retryCount

\* C26: a request makes at most retryCount + 1 upstream requests, the count
\* taken from the request when it names one, else from the configuration;
\* after the attempt that obtains an image it makes no further request,
\* writes its prompt record as success and answers 200; it gives up only
\* when retryCount + 1 attempts have all failed, and then writes the record
\* as failed with the message of the last attempt and answers 500.
C26_BoundedAttempts ==
    [][\A r \in GenReqs :
          LET q == gen.req[r]
              n == gen'.req[r]
          IN n.pc # "idle" =>
                /\ n.fetches <= RetryOf(n) + 1
                /\ q.pc # "idle" /\ n.fetches # q.fetches => q.pc = "loop"
                /\ q.pc = "loop" /\ n.pc = "mark_failed" =>
                      /\ n.fetches = RetryOf(n) + 1
                      /\ n.attempt = n.fetches
                      /\ n.lastError # None
                /\ q.pc = "loop" /\ n.pc = "loop" => n.attempt = n.fetches
                /\ q.pc = "write_success" /\ n.pc = "done" =>
                      /\ gen'.prompts[n.promptId].status = PsSuccess
                      /\ n.response.status = 200
                /\ q.pc = "write_failed" /\ n.pc = "done" =>
                      /\ gen'.prompts[n.promptId].status = PsFailed
                      /\ gen'.prompts[n.promptId].errorMsg = q.lastError
                      /\ n.response.status = 500
                /\ q.pc = "mark_failed" /\ n.pc = "done" => n.response.status = 500
                /\ q.pc = "mark_success" /\ n.pc = "done" => n.response.status = 200]_vars

\* one request has given up after three failed attempts, the other has
\* obtained an image on its second attempt
C26_Witness ==
    \E r, o \in GenReqs :
        /\ gen.req[r].pc = "done" /\ gen.req[o].pc = "done"
        /\ gen.req[r].promptId \in PromptIds /\ gen.req[o].promptId \in PromptIds
        /\ gen.req[r].response.status = 500 /\ gen.req[r].fetches = 3
        /\ gen.prompts[gen.req[r].promptId].status = PsFailed
        /\ gen.req[o].response.status = 200 /\ gen.req[o].fetches = 2
        /\ gen.prompts[gen.req[o].promptId].status = PsSuccess

(***************************************************************************)
(* handleStartGeneration: the batch of the prompt workspace.               *)
(***************************************************************************)
\* the prompts of the workspace
MaxPrompts == 3

BatchIds == 1..MaxPrompts

PsGenerating == "prompt generating"

\* config.maxConcurrency: absent, or a number of the settings form
Concurrencies == {None, <<1>>, <<2>>, <<5>>}

\* the default of config.maxConcurrency ?? 3
DefaultConcurrency == 3

\* prompts.filter(selected).filter(waiting or failed): ids in list order
IdsToProcess(prompts, selectedIds) ==
    SelectSeq([i \in BatchIds |-> i],
              LAMBDA i : i \in selectedIds /\ prompts[i] \in {PsWaiting, PsFailed})

\* as many workers as prompts, whatever the configuration says
ConcurrencyUncapped(maxConcurrency, count) == Max(1, count)

\* Math.max(1, Math.min(config.maxConcurrency ?? 3, idsToProcess.length))
Concurrency(maxConcurrency, count) ==
    Max(1, Min(IF maxConcurrency # None THEN maxConcurrency[1] ELSE DefaultConcurrency,
               count))

InitBatchRun ==
    /\ videoTasks = Store(<<>>)
    /\ cfg \in {Config(k, 1) : k \in EnvConfigs}
    /\ NoRun
    /\ picked = None /\ fj = None /\ board = None /\ upd = None
    /\ gen = None /\ styleStore = None /\ keyStore = None
    /\ \E statuses \in [BatchIds -> {PsWaiting, PsFailed, PsSuccess}],
          selectedIds \in SUBSET BatchIds, mc \in Concurrencies, key \in BOOLEAN :
          batch = [prompts |-> statuses, selectedIds |-> selectedIds,
                   config |-> [maxConcurrency |-> mc, selectedKeyId |-> key],
                   isGenerating |-> FALSE, phase |-> "idle",
                   progress |-> [total |-> 0, completed |-> 0, success |-> 0, failed |-> 0],
                   queue |-> <<>>, concurrency |-> 0,
                   worker |-> [w \in BatchIds |-> [pc |-> "off", item |-> 0]],
                   ids |-> <<>>, calls |-> <<>>]

batchRest == <<videoTasks, cfg, callsLeft, provider, runVars, pc, localVars, snap,
               picked, fj, board, upd, gen, styleStore, keyStore>>

\* handleStartGeneration up to Promise.all: the early returns, the counters,
\* the queue and the workers
StartGeneration ==
    LET ids == IdsToProcess(batch.prompts, batch.selectedIds)
        n == Concurrency(batch.config.maxConcurrency, Len(ids))
    IN /\ batch.phase = "idle" /\ ~batch.isGenerating
       /\ batch' = IF ~batch.config.selectedKeyId \/ Len(ids) = 0
                   THEN [batch EXCEPT !.phase = "returned"]
                   ELSE [batch EXCEPT !.phase = "running", !.isGenerating = TRUE,
                                      !.progress = [total |-> Len(ids), completed |-> 0,
                                                    success |-> 0, failed |-> 0],
                                      !.queue = ids, !.ids = ids, !.concurrency = n,
                                      !.worker = [w \in BatchIds |->
                                                    [pc |-> IF w <= n THEN "top" ELSE "off",
                                                     item |-> 0]]]
       /\ UNCHANGED batchRest

\* the head of the while loop: leave on an empty queue, else shift an item
\* and mark it as generating
WorkerTake(w) ==
    /\ batch.phase = "running" /\ batch.worker[w].pc = "top"
    /\ batch' = IF Len(batch.queue) = 0
                THEN [batch EXCEPT !.worker[w].pc = "exit"]
                ELSE [batch EXCEPT !.queue = Tail(@),
                                   !.worker[w] = [pc |-> "marked", item |-> Head(batch.queue)],
                                   !.prompts[Head(batch.queue)] = PsGenerating]
    /\ UNCHANGED batchRest

\* generateImage is called
WorkerCall(w) ==
    /\ batch.phase = "running" /\ batch.worker[w].pc = "marked"
    /\ batch' = [batch EXCEPT !.worker[w].pc = "calling",
                              !.calls = Append(@, batch.worker[w].item)]
    /\ UNCHANGED batchRest

\* generateImage returns or throws; the prompt and the counters are updated
WorkerSettle(w) ==
    /\ batch.phase = "running" /\ batch.worker[w].pc = "calling"
    /\ \E ok \in BOOLEAN :
          batch' = [batch EXCEPT
                      !.worker[w] = [pc |-> "top", item |-> 0],
                      !.prompts[batch.worker[w].item] = IF ok THEN PsSuccess ELSE PsFailed,
                      !.progress = [@ EXCEPT !.completed = @ + 1,
                                             !.success = IF ok THEN @ + 1 ELSE @,
                                             !.failed = IF ok THEN @ ELSE @ + 1]]
    /\ UNCHANGED batchRest

\* Promise.all resolves: every worker has left its loop
BatchEnd ==
    /\ batch.phase = "running"
    /\ \A w \in BatchIds : batch.worker[w].pc \in {"off", "exit"}
    /\ batch' = [batch EXCEPT !.phase = "finished", !.isGenerating = FALSE]
    /\ UNCHANGED batchRest

NextBatch ==
    \/ StartGeneration
    \/ \E w \in BatchIds : WorkerTake(w) \/ WorkerCall(w) \/ WorkerSettle(w)
    \/ BatchEnd

SpecBatch == InitBatchRun /\ [][NextBatch]_vars

\* the generateImage calls in flight
InFlight == {w \in BatchIds : batch.worker[w].pc = "calling"}

\* how often generateImage has been called for a prompt
CallsFor(i) == Cardinality({k \in DOMAIN batch.calls : batch.calls[k] = i})

\* C27: during a batch no prompt is handed to generateImage twice and only
\* prompts that were selected and waiting or failed at the start are; at
\* most max(1, min(maxConcurrency, count)) calls are in flight; completed
\* is success + failed and at most total; and when the batch has ended
\* every such prompt was handed over once and completed equals total.
C27_EachPromptOnce ==
    batch.phase \in {"running", "finished"} =>
        LET count == Len(batch.ids)
            mc == IF batch.config.maxConcurrency # None
                  THEN batch.config.maxConcurrency[1] ELSE 3
            cap == IF mc < count THEN mc ELSE count
        IN /\ \A i \in BatchIds : CallsFor(i) <= 1
           /\ \A i \in BatchIds :
                 CallsFor(i) = 1 => i \in batch.selectedIds /\ \E k \in DOMAIN batch.ids : batch.ids[k] = i
           /\ Cardinality(InFlight) <= (IF cap > 1 THEN cap ELSE 1)
           /\ batch.progress.total = count
           /\ batch.progress.completed = batch.progress.success + batch.progress.failed
           /\ batch.progress.completed <= batch.progress.total
           /\ batch.phase = "finished" =>
                 /\ \A k \in DOMAIN batch.ids : CallsFor(batch.ids[k]) = 1
                 /\ batch.progress.completed = batch.progress.total

\* a batch of three prompts on two workers has ended with both outcomes
C27_Witness ==
    /\ batch.phase = "finished"
    /\ Len(batch.ids) = 3 /\ batch.concurrency = 2
    /\ batch.progress.success >= 1 /\ batch.progress.failed >= 1

(***************************************************************************)
(* The style store: styles.json behind the style and category routes.      *)
(***************************************************************************)
\* the identifiers crypto.randomUUID hands out in one behaviour
MaxIds == 3

DefaultId == "default"

\* the name of the default category and the names a request may give
DefaultName == "default style"
CategoryNames == {DefaultName, "a", "b", ""}

DEFAULT_STYLE_STORE ==
    [styles |-> <<>>, categories |-> <<[id |-> DefaultId, name |-> DefaultName]>>]

CategoryIds(store) == {store.categories[i].id : i \in DOMAIN store.categories}
StyleIds(store) == {store.styles[i].id : i \in DOMAIN store.styles}

\* array.splice(idx, 1)
Splice(q, idx) == [i \in 1..(Len(q) - 1) |-> IF i < idx THEN q[i] ELSE q[i + 1]]

\* findIndex: the first index with the id, 0 if none
IndexOfId(q, id) ==
    LET hits == {i \in DOMAIN q : q[i].id = id}
    IN IF hits = {} THEN 0 ELSE CHOOSE i \in hits : \A j \in hits : i <= j

\* the styles of a deleted category left where they were
StylesLeftBehind(styles, id) == styles

\* styles.map: the styles of the category move to the default category
StylesMoved(styles, id) ==
    [i \in DOMAIN styles |->
        IF styles[i].categoryId = id THEN [styles[i] EXCEPT !.categoryId = DefaultId]
        ELSE styles[i]]

InitStyle ==
    /\ videoTasks = Store(<<>>)
    /\ cfg \in {Config(k, 1) : k \in EnvConfigs}
    /\ NoRun
    /\ picked = None /\ fj = None /\ board = None /\ upd = None
    /\ gen = None /\ batch = None /\ keyStore = None
    /\ styleStore = [store |-> DEFAULT_STYLE_STORE, nextId |-> 1,
                     last |-> [op |-> "none", status |-> 0, id |-> "", arg |-> "",
                               before |-> DEFAULT_STYLE_STORE]]

styleRest == <<videoTasks, cfg, callsLeft, provider, runVars, pc, localVars, snap,
               picked, fj, board, upd, gen, batch, keyStore>>

\* a request is answered: the store it leaves and the record of the request
Answered(op, id, arg, status, store, used) ==
    styleStore' = [store |-> store, nextId |-> styleStore.nextId + used,
                   last |-> [op |-> op, status |-> status, id |-> id, arg |-> arg,
                             before |-> styleStore.store]]

\* the ids a request may name: the stored ones and one that is not stored
NamedCategoryIds == CategoryIds(styleStore.store) \cup {"missing"}
NamedStyleIds == StyleIds(styleStore.store) \cup {"missing"}

\* POST /api/styles
StylePost ==
    /\ \E categoryId \in NamedCategoryIds :
          LET store == styleStore.store
              entry == [id |-> ToString(styleStore.nextId), categoryId |-> categoryId]
          IN IF categoryId \notin CategoryIds(store)
             THEN Answered("createStyle", "", categoryId, 400, store, 0)
             ELSE /\ styleStore.nextId <= MaxIds
                  /\ Answered("createStyle", entry.id, categoryId, 201,
                              [store EXCEPT !.styles = Append(@, entry)], 1)
    /\ UNCHANGED styleRest

\* PUT /api/styles/[id]
StylePut ==
    /\ \E id \in NamedStyleIds, categoryId \in NamedCategoryIds :
          LET store == styleStore.store
              idx == IndexOfId(store.styles, id)
          IN IF idx = 0
             THEN Answered("updateStyle", id, categoryId, 404, store, 0)
             ELSE IF categoryId \notin CategoryIds(store)
             THEN Answered("updateStyle", id, categoryId, 400, store, 0)
             ELSE Answered("updateStyle", id, categoryId, 200,
                           [store EXCEPT !.styles[idx].categoryId = categoryId], 0)
    /\ UNCHANGED styleRest

\* DELETE /api/styles/[id]
StyleDelete ==
    /\ \E id \in NamedStyleIds :
          LET store == styleStore.store
              idx == IndexOfId(store.styles, id)
          IN IF idx = 0
             THEN Answered("deleteStyle", id, "", 404, store, 0)
             ELSE Answered("deleteStyle", id, "", 200,
                           [store EXCEPT !.styles = Splice(@, idx)], 0)
    /\ UNCHANGED styleRest

\* POST /api/styles/categories
CategoryPost ==
    /\ \E name \in CategoryNames :
          LET store == styleStore.store
              duplicated == \E i \in DOMAIN store.categories : store.categories[i].name = name
              category == [id |-> ToString(styleStore.nextId), name |-> name]
          IN IF name = "" \/ duplicated
             THEN Answered("createCategory", "", name, 400, store, 0)
             ELSE /\ styleStore.nextId <= MaxIds
                  /\ Answered("createCategory", category.id, name, 201,
                              [store EXCEPT !.categories = Append(@, category)], 1)
    /\ UNCHANGED styleRest

\* PUT /api/styles/categories/[id]
CategoryPut ==
    /\ \E id \in NamedCategoryIds, name \in CategoryNames :
          LET store == styleStore.store
              idx == IndexOfId(store.categories, id)
          IN IF id = DefaultId \/ name = ""
             THEN Answered("renameCategory", id, name, 400, store, 0)
             ELSE IF idx = 0
             THEN Answered("renameCategory", id, name, 404, store, 0)
             ELSE Answered("renameCategory", id, name, 200,
                           [store EXCEPT !.categories[idx].name = name], 0)
    /\ UNCHANGED styleRest

\* DELETE /api/styles/categories/[id]
CategoryDelete ==
    /\ \E id \in NamedCategoryIds :
          LET store == styleStore.store
              idx == IndexOfId(store.categories, id)
          IN IF id = DefaultId
             THEN Answered("deleteCategory", id, "", 400, store, 0)
             ELSE IF idx = 0
             THEN Answered("deleteCategory", id, "", 404, store, 0)
             ELSE Answered("deleteCategory", id, "", 200,
                           [styles |-> StylesMoved(store.styles, id),
                            categories |-> Splice(store.categories, idx)], 0)
    /\ UNCHANGED styleRest

NextStyle ==
    \/ StylePost \/ StylePut \/ StyleDelete
    \/ CategoryPost \/ CategoryPut \/ CategoryDelete

SpecStyle == InitStyle /\ [][NextStyle]_vars

\* C28: the category default is stored and every style names a stored
\* category; a deleted category is gone and its styles, and no others, are
\* in default; a style request naming a category that is not stored is
\* answered 400 and leaves the store as it was.
C28_StyleCategoryExists ==
    LET store == styleStore.store
        last == styleStore.last
    IN /\ \E i \in DOMAIN store.categories : store.categories[i].id = DefaultId
       /\ \A i \in DOMAIN store.styles :
             \E j \in DOMAIN store.categories : store.categories[j].id = store.styles[i].categoryId
       /\ last.op = "deleteCategory" /\ last.status = 200 =>
             /\ \A j \in DOMAIN store.categories : store.categories[j].id # last.id
             /\ DOMAIN store.styles = DOMAIN last.before.styles
             /\ \A i \in DOMAIN store.styles :
                   /\ store.styles[i].id = last.before.styles[i].id
                   /\ store.styles[i].categoryId =
                         IF last.before.styles[i].categoryId = last.id THEN DefaultId
                         ELSE last.before.styles[i].categoryId
       /\ /\ last.op \in {"createStyle", "updateStyle"}
          /\ \A j \in DOMAIN last.before.categories : last.before.categories[j].id # last.arg
          => last.status \in {400, 404} /\ store = last.before

\* a category that held a style has been deleted
C28_Witness ==
    /\ styleStore.last.op = "deleteCategory" /\ styleStore.last.status = 200
    /\ \E i \in DOMAIN styleStore.last.before.styles :
          styleStore.last.before.styles[i].categoryId = styleStore.last.id

\* C30: the names of the stored categories are pairwise different, and a
\* request to create or rename a category under a name another category
\* carries is answered 400 and leaves the store as it was.
C30_UniqueCategoryNames ==
    LET store == styleStore.store
        last == styleStore.last
    IN /\ \A i, j \in DOMAIN store.categories :
             i # j => store.categories[i].name # store.categories[j].name
       /\ /\ last.op \in {"createCategory", "renameCategory"}
          /\ \E j \in DOMAIN last.before.categories :
                /\ last.before.categories[j].name = last.arg
                /\ last.before.categories[j].id # last.id
          => last.status = 400 /\ store = last.before

(***************************************************************************)
(* The key store: keys.json and config.selectedKeyId behind the key routes.*)
(***************************************************************************)
\* the keys created in one behaviour
MaxKeys == 5

DEFAULT_KEY_STORE == [keys |-> <<>>]

\* the selection after its key was removed but not replaced
NoNextSelected(keys) == ""

\* store.keys[0]?.id ?? ""
NextSelected(keys) == IF keys # <<>> THEN keys[1].id ELSE ""

InitKeyStore ==
    /\ videoTasks = Store(<<>>)
    /\ cfg \in {Config(k, 1) : k \in EnvConfigs}
    /\ NoRun
    /\ picked = None /\ fj = None /\ board = None /\ upd = None
    /\ gen = None /\ batch = None /\ styleStore = None
    /\ keyStore = [keys |-> DEFAULT_KEY_STORE.keys, selectedKeyId |-> "", nextId |-> 1,
                   last |-> [op |-> "none", status |-> 0, id |-> "",
                             before |-> [keys |-> <<>>, selectedKeyId |-> ""]]]

keyRest == <<videoTasks, cfg, callsLeft, provider, runVars, pc, localVars, snap,
             picked, fj, board, upd, gen, batch, styleStore>>

KeyAnswered(op, id, status, keys, selectedKeyId, used) ==
    keyStore' = [keys |-> keys, selectedKeyId |-> selectedKeyId,
                 nextId |-> keyStore.nextId + used,
                 last |-> [op |-> op, status |-> status, id |-> id,
                           before |-> [keys |-> keyStore.keys,
                                       selectedKeyId |-> keyStore.selectedKeyId]]]

\* POST /api/keys: a body the schema refuses, or a new entry
KeyPost ==
    /\ \E valid \in BOOLEAN :
          LET entry == [id |-> ToString(keyStore.nextId)]
          IN IF ~valid
             THEN KeyAnswered("createKey", "", 400, keyStore.keys, keyStore.selectedKeyId, 0)
             ELSE /\ keyStore.nextId <= MaxKeys
                  /\ KeyAnswered("createKey", entry.id, 201, Append(keyStore.keys, entry),
                                 IF keyStore.selectedKeyId = "" THEN entry.id
                                 ELSE keyStore.selectedKeyId, 1)
    /\ UNCHANGED keyRest

\* DELETE /api/keys/[id]
KeyDelete ==
    /\ \E id \in {keyStore.keys[i].id : i \in DOMAIN keyStore.keys} \cup {"missing"} :
          LET idx == IndexOfId(keyStore.keys, id)
              keys == Splice(keyStore.keys, idx)
          IN IF idx = 0
             THEN KeyAnswered("deleteKey", id, 404, keyStore.keys, keyStore.selectedKeyId, 0)
             ELSE KeyAnswered("deleteKey", id, 200, keys,
                              IF keyStore.selectedKeyId = keyStore.keys[idx].id
                              THEN NextSelected(keys) ELSE keyStore.selectedKeyId, 0)
    /\ UNCHANGED keyRest

NextKeyStore == KeyPost \/ KeyDelete

SpecKeyStore == InitKeyStore /\ [][NextKeyStore]_vars

\* C29: with keys stored the selection is the id of one of them, with none
\* stored it is empty, and a delete of a key other than the selected one
\* leaves the selection as it was.
C29_SelectionExists ==
    LET last == keyStore.last
    IN /\ keyStore.keys = <<>> => keyStore.selectedKeyId = ""
       /\ keyStore.keys # <<>> =>
             \E i \in DOMAIN keyStore.keys : keyStore.keys[i].id = keyStore.selectedKeyId
       /\ last.op = "deleteKey" /\ last.id # last.before.selectedKeyId =>
             keyStore.selectedKeyId = last.before.selectedKeyId

\* the selected key has been deleted while two other keys were stored
C29_Witness ==
    /\ keyStore.last.op = "deleteKey" /\ keyStore.last.status = 200
    /\ keyStore.last.id = keyStore.last.before.selectedKeyId
    /\ Len(keyStore.keys) = 2

====
